---- MODULE Spec2Model ----
(***************************************************************************)
(* Model of cmd/nats-basic/natsPubSub.go: a command-line NATS client that  *)
(* parses and validates four flags, opens one connection, then either      *)
(* publishes one message (Publish + Flush) or subscribes, blocks until     *)
(* SIGINT/SIGTERM and shuts down with Drain, a deferred Unsubscribe and a  *)
(* deferred Close.                                                         *)
(*                                                                         *)
(* The main goroutine is the program counter pc.  The nats.go client is    *)
(* the environment of the tool: its delivery goroutine, its background     *)
(* drain goroutine and the state of the connection are modelled by the     *)
(* actions of the section "nats.go client".  Go strings are byte           *)
(* sequences; the subject is a sequence of one-character strings so that   *)
(* it can be split on "." for wildcard matching.                           *)
(***************************************************************************)
EXTENDS Naturals, Integers, Sequences, FiniteSets, TLC

\* ------------------------------------------------------------ bounds
MaxMsgs == 2

\* ------------------------------------------------------------ constants
modePub == "pub"
modeSub == "sub"
DefaultURL == "nats://127.0.0.1:4222"

\* What flag.Parse makes of the command line: it accepts it ("ok"), it is
\* asked for help (-h, -help), or it cannot parse it: a flag that is not
\* defined, a flag without its value, a malformed flag.
ArgvKinds == {"ok", "help", "undefined", "novalue", "badsyntax"}

\* The values the command line gives to the four flags (the default of a
\* flag it does not give).
Modes == {"", modePub, modeSub, "xyz"}
Subjects == {<<>>, <<"a", ".", "b">>, <<"a", ".", ">">>, <<"a", ".", "*">>}
Payloads == {<<>>, <<104, 105>>}
URLs == {DefaultURL, "nats://other:4222"}
Signals == {"SIGINT", "SIGTERM"}

VARIABLES
    argv,                          \* the kind of command line (immutable)
    mode, subject, msg, natsURL,   \* the flags it gives (immutable)
    pc,                            \* position of the main goroutine
    proc,                          \* "running", "exited" or "killed"
    exitCode,                      \* -1 until the process exits
    defers,                        \* pending deferred calls, most recent first
    trace,                         \* history: client calls and output lines
    connStatus,                    \* status of the *nats.Conn
    closeCount,                    \* times the connection entered CLOSED
    subState,                      \* state of the *nats.Subscription
    pending,                       \* messages queued on the subscription
    popped,                        \* message taken by the delivery goroutine
    handled,                       \* messages whose callback has run
    lost,                          \* messages discarded without the callback
    published,                     \* publisher runs the subscription matches
    sigInstalled, sigCh,           \* signal.Notify state
    signalled                      \* a signal has been sent to the process

vars == <<argv, mode, subject, msg, natsURL, pc, proc, exitCode, defers, trace,
          connStatus, closeCount, subState, pending, popped, handled, lost,
          published, sigInstalled, sigCh, signalled>>

flagVars == <<argv, mode, subject, msg, natsURL>>
subVars == <<subState, pending, popped, handled, lost, published>>
sigVars == <<sigInstalled, sigCh, signalled>>

\* ------------------------------------------------------------ events
NoBytes == <<>>

\* A call of the nats.go client made by the tool, with its result.
Call(op, subj, data, err) ==
    [op |-> op, subject |-> subj, data |-> data,
     res |-> IF err THEN "err" ELSE "ok"]

\* A line written to a stream; text names the format string.
Out(stream, text) ==
    [op |-> stream, subject |-> <<>>, data |-> NoBytes, res |-> text]

\* l := log.New(os.Stdout, ...): every l.Printf / l.Fatalf line goes to stdout.
LoggerStream == "stdout"

Log(text) == Out(LoggerStream, text)

CallOps == {"Connect", "Publish", "Flush", "Subscribe", "Drain",
            "Unsubscribe", "Close"}

IsCall(e) == e.op \in CallOps

Calls == SelectSeq(trace, IsCall)

\* Positions in trace of the calls of op (with result res, when given).
PosOf(op) == {i \in 1..Len(trace) : trace[i].op = op}
PosOfRes(op, res) == {i \in PosOf(op) : trace[i].res = res}
PosOut(text) == {i \in 1..Len(trace) : trace[i].res = text /\ ~IsCall(trace[i])}

\* ------------------------------------------------------------ messages
NoMsg == [Subject |-> <<>>, Data |-> NoBytes]

\* Mutant of Bytes: the conversion loses the last byte.
BytesTruncated(s) == [i \in 1..(Len(s) - 1) |-> s[i]]

\* []byte(msg): a copy of the bytes of the string.
Bytes(s) == [i \in 1..Len(s) |-> s[i]]

\* string(m.Data)
String(b) == [i \in 1..Len(b) |-> b[i]]

\* The message publish() puts on the wire for -subject s -msg g:
\* nc.Publish(subject, []byte(msg)).
Wire(s, g) == [Subject |-> s, Data |-> Bytes(g)]

\* The -subject and -msg values of the publisher runs of other invocations.
PublishedSubjects == {<<"a", ".", "b">>, <<"a", ".", "b", ".", "c">>, <<"a">>}
PublishedData == {<<104>>}

RECURSIVE SplitAcc(_, _, _)
SplitAcc(s, cur, acc) ==
    IF s = <<>> THEN Append(acc, cur)
    ELSE IF Head(s) = "." THEN SplitAcc(Tail(s), <<>>, Append(acc, cur))
    ELSE SplitAcc(Tail(s), Append(cur, Head(s)), acc)

\* The dot-delimited tokens of a subject.
Tokens(s) == SplitAcc(s, <<>>, <<>>)

RECURSIVE TokensMatch(_, _)
TokensMatch(p, s) ==
    IF p = <<>> THEN s = <<>>
    ELSE IF Head(p) = <<">">> THEN Len(p) = 1 /\ Len(s) >= 1
    ELSE IF s = <<>> THEN FALSE
    ELSE IF Head(p) = <<"*">> \/ Head(p) = Head(s) THEN TokensMatch(Tail(p), Tail(s))
    ELSE FALSE

\* "*" matches a single token, ">" matches one or more trailing tokens.
SubjectMatches(pattern, subj) == TokensMatch(Tokens(pattern), Tokens(subj))

\* ------------------------------------------------------------ initial state
Init ==
    /\ argv \in ArgvKinds
    /\ mode \in Modes
    /\ subject \in Subjects
    /\ msg \in Payloads
    /\ natsURL \in URLs
    /\ pc = "parse"
    /\ proc = "running"
    /\ exitCode = -1
    /\ defers = <<>>
    /\ trace = <<>>
    /\ connStatus = "NONE"
    /\ closeCount = 0
    /\ subState = "none"
    /\ pending = <<>>
    /\ popped = NoMsg
    /\ handled = <<>>
    /\ lost = 0
    /\ published = <<>>
    /\ sigInstalled = FALSE
    /\ sigCh = <<>>
    /\ signalled = FALSE

Running == proc = "running"

\* Messages queued or held by the delivery goroutine, not yet handled.
InFlight == Len(pending) + (IF popped = NoMsg THEN 0 ELSE 1)

\* os.Exit(code), or the return of main: the process ends, deferred calls
\* that were not run are never run, goroutines stop where they are.
ProcessEnds(code) ==
    /\ proc' = "exited"
    /\ exitCode' = code
    /\ pc' = "exit"
    /\ lost' = lost + InFlight
    /\ pending' = <<>>
    /\ popped' = NoMsg

\* Mutant of Fatalf: the process exits with status 2.
FatalfExitTwo(events, text) ==
    /\ trace' = trace \o events \o <<Log(text)>>
    /\ ProcessEnds(2)
    /\ UNCHANGED <<flagVars, defers, connStatus, closeCount, subState, handled,
                   published, sigVars>>

\* Mutant of Fatalf: the process exits with status 1 and prints nothing.
FatalfSilent(events, text) ==
    /\ trace' = trace \o events
    /\ ProcessEnds(1)
    /\ UNCHANGED <<flagVars, defers, connStatus, closeCount, subState, handled,
                   published, sigVars>>

\* l.Fatalf(text): one log line, then os.Exit(1).
Fatalf(events, text) ==
    /\ trace' = trace \o events \o <<Log(text)>>
    /\ ProcessEnds(1)
    /\ UNCHANGED <<flagVars, defers, connStatus, closeCount, subState, handled,
                   published, sigVars>>

\* ------------------------------------------------------------ main: flag.Parse
\* The message flag.Parse prints for a command line it cannot parse.
ParseError(a) ==
    CASE a = "undefined" -> "flag provided but not defined"
      [] a = "novalue" -> "flag needs an argument"
      [] a = "badsyntax" -> "bad flag syntax"
      [] OTHER -> "none"

\* flag.Parse() on the default flag set (flag.ExitOnError): for -h it
\* prints the usage and exits with status 0; for a command line it cannot
\* parse it prints the error and the usage to stderr and exits with
\* status 2; otherwise main goes on to the validation.
FlagParse ==
    /\ Running /\ pc = "parse"
    /\ CASE argv = "ok" ->
              /\ pc' = "validate"
              /\ UNCHANGED <<trace, proc, exitCode, lost, pending, popped>>
         [] argv = "help" ->
              /\ trace' = trace \o <<Out("stderr", "usage")>>
              /\ ProcessEnds(0)
         [] OTHER ->
              /\ trace' = trace \o <<Out("stderr", ParseError(argv)), Out("stderr", "usage")>>
              /\ ProcessEnds(2)
    /\ UNCHANGED <<flagVars, defers, connStatus, closeCount, subState, handled,
                   published, sigVars>>

\* ------------------------------------------------------------ main: validation
\* Mutant of ValidationError: the check of -msg in pub mode is missing.
ValidationErrorNoMsgCheck(m, s, g) ==
    IF m = "" \/ s = <<>> THEN "Error: -mode and -subject flags are required."
    ELSE IF m # modePub /\ m # modeSub THEN "Error: -mode must be pub or sub"
    ELSE "ok"

\* Mutant of ValidationError: -msg is required in every mode.
ValidationErrorMsgAlways(m, s, g) ==
    IF m = "" \/ s = <<>> THEN "Error: -mode and -subject flags are required."
    ELSE IF m # modePub /\ m # modeSub THEN "Error: -mode must be pub or sub"
    ELSE IF g = <<>> THEN "Error: -msg flag is required when using -mode pub."
    ELSE "ok"

\* The three checks of main, in order; "ok" when the flags pass.
ValidationError(m, s, g) ==
    IF m = "" \/ s = <<>> THEN "Error: -mode and -subject flags are required."
    ELSE IF m # modePub /\ m # modeSub THEN "Error: -mode must be pub or sub"
    ELSE IF m = modePub /\ g = <<>> THEN "Error: -msg flag is required when using -mode pub."
    ELSE "ok"

\* A failed check prints the error and the usage to stderr, then os.Exit(1).
Validate ==
    /\ Running /\ pc = "validate"
    /\ LET e == ValidationError(mode, subject, msg) IN
       IF e # "ok"
       THEN /\ trace' = trace \o <<Out("stderr", e), Out("stderr", "usage")>>
            /\ ProcessEnds(1)
       ELSE /\ pc' = "connect"
            /\ UNCHANGED <<trace, proc, exitCode, lost, pending, popped>>
    /\ UNCHANGED <<flagVars, defers, connStatus, closeCount, subState, handled,
                   published, sigVars>>

\* ------------------------------------------------------------ main: connect
\* Mutant of ModeDispatch: the two cases are swapped.
ModeDispatchSwapped(m) ==
    IF m = modePub THEN "subscribe"
    ELSE IF m = modeSub THEN "publish"
    ELSE "return"

\* switch *mode: a mode that is neither case falls out of the switch.
ModeDispatch(m) ==
    IF m = modePub THEN "publish"
    ELSE IF m = modeSub THEN "subscribe"
    ELSE "return"

\* l.Printf("Connecting to NATS server at ..."): the line is out before
\* nats.Connect starts to dial.
ConnectLog ==
    /\ Running /\ pc = "connect"
    /\ trace' = Append(trace, Log("Connecting to NATS server"))
    /\ pc' = "dial"
    /\ UNCHANGED <<flagVars, proc, exitCode, defers, connStatus, closeCount,
                   subVars, sigVars>>

\* Mutant of Connect: a failed nats.Connect is logged and tried again.
ConnectRetry ==
    /\ Running /\ pc = "dial"
    /\ \E err \in BOOLEAN :
         LET evs == <<Call("Connect", <<>>, NoBytes, err)>> IN
         IF err
         THEN /\ trace' = trace \o evs \o <<Log("Failed to connect to NATS")>>
              /\ UNCHANGED <<flagVars, pc, proc, exitCode, defers, connStatus,
                             closeCount, subVars, sigVars>>
         ELSE /\ trace' = trace \o evs \o <<Log("Connected to NATS server successfully.")>>
              /\ connStatus' = "CONNECTED"
              /\ defers' = <<"nc.Close">> \o defers
              /\ pc' = ModeDispatch(mode)
              /\ UNCHANGED <<flagVars, proc, exitCode, closeCount, subVars,
                             sigVars>>

\* nats.Connect returns, after the dial; on error l.Fatalf, else
\* defer nc.Close(), the success line and the dispatch on the mode.
Connect ==
    /\ Running /\ pc = "dial"
    /\ \E err \in BOOLEAN :
         LET evs == <<Call("Connect", <<>>, NoBytes, err)>> IN
         IF err
         THEN Fatalf(evs, "Failed to connect to NATS")
         ELSE /\ trace' = trace \o evs \o <<Log("Connected to NATS server successfully.")>>
              /\ connStatus' = "CONNECTED"
              /\ defers' = <<"nc.Close">> \o defers
              /\ pc' = ModeDispatch(mode)
              /\ UNCHANGED <<flagVars, proc, exitCode, closeCount, subVars,
                             sigVars>>

\* ------------------------------------------------------------ publish
\* nc.Publish(subject, []byte(msg)); a closed connection always refuses.
Publish ==
    /\ Running /\ pc = "publish"
    /\ \E err \in BOOLEAN :
         /\ connStatus = "CLOSED" => err
         /\ LET evs == <<Log("Publishing to subject"),
                         Call("Publish", subject, Bytes(msg), err)>> IN
            IF err
            THEN Fatalf(evs, "Failed to publish")
            ELSE /\ trace' = trace \o evs
                 /\ pc' = "flush"
                 /\ UNCHANGED <<flagVars, proc, exitCode, defers, connStatus,
                                closeCount, subVars, sigVars>>

\* Mutant of Flush: a Flush error is logged and not treated as fatal.
FlushErrorIgnored ==
    /\ Running /\ pc = "flush"
    /\ \E err \in BOOLEAN :
         /\ connStatus = "CLOSED" => err
         /\ trace' = trace \o <<Call("Flush", <<>>, NoBytes, err)>>
                           \o <<Log("Message published")>>
         /\ pc' = "return"
         /\ UNCHANGED <<flagVars, proc, exitCode, defers, connStatus,
                        closeCount, subVars, sigVars>>

\* nc.Flush(); on success the success line is logged and publish returns.
Flush ==
    /\ Running /\ pc = "flush"
    /\ \E err \in BOOLEAN :
         /\ connStatus = "CLOSED" => err
         /\ LET evs == <<Call("Flush", <<>>, NoBytes, err)>> IN
            IF err
            THEN Fatalf(evs, "Failed to flush")
            ELSE /\ trace' = trace \o evs \o <<Log("Message published")>>
                 /\ pc' = "return"
                 /\ UNCHANGED <<flagVars, proc, exitCode, defers, connStatus,
                                closeCount, subVars, sigVars>>

\* ------------------------------------------------------------ nats.go client
Draining == {"DRAINING_SUBS", "DRAINING_PUBS"}

\* The connection enters CLOSED: every subscription is closed and what is
\* still queued on it is discarded.  A message the delivery goroutine has
\* already taken is not recalled.
LibClose ==
    /\ connStatus' = "CLOSED"
    /\ closeCount' = closeCount + 1
    /\ subState' = IF subState \in {"active", "draining"} THEN "closed" ELSE subState
    /\ lost' = lost + Len(pending)
    /\ pending' = <<>>

\* The server sends to the subscription while it knows it and the
\* subscriber's connection is up: from nc.Subscribe until the background
\* drain has removed the subscription, and not while the client reconnects.
ServerSends ==
    /\ subState \in {"active", "draining"}
    /\ connStatus \in {"CONNECTED", "DRAINING_SUBS"}

\* Another invocation of the tool, with -mode pub -subject s -msg g,
\* publishes while this one is subscribed.  A run whose subject the
\* pattern of the subscription does not match is nothing to this
\* subscriber.  The message of a run it matches is sent to the
\* subscription, where it is queued, when the server can send; core NATS
\* does not keep it otherwise.
PublisherRun ==
    /\ Running /\ subState \in {"active", "draining"}
    /\ Len(published) < MaxMsgs
    /\ \E s \in PublishedSubjects, g \in PublishedData :
         IF SubjectMatches(subject, s)
         THEN /\ published' = Append(published, [Subject |-> s, Msg |-> g,
                                                 routed |-> ServerSends])
              /\ pending' = IF ServerSends THEN Append(pending, Wire(s, g)) ELSE pending
         ELSE UNCHANGED <<published, pending>>
    /\ UNCHANGED <<flagVars, pc, proc, exitCode, defers, trace, connStatus,
                   closeCount, subState, popped, handled, lost, sigVars>>

\* The delivery goroutine takes the next queued message, unless the
\* subscription is closed.
CallbackDequeue ==
    /\ Running /\ popped = NoMsg /\ pending # <<>>
    /\ subState \in {"active", "draining"}
    /\ popped' = Head(pending)
    /\ pending' = Tail(pending)
    /\ UNCHANGED <<flagVars, pc, proc, exitCode, defers, trace, connStatus,
                   closeCount, subState, handled, lost, published, sigVars>>

\* Mutant of Received: the callback logs the subject of the subscription
\* instead of the subject of the message.
ReceivedLogsPattern(m) ==
    [op |-> LoggerStream, subject |-> subject, data |-> String(m.Data),
     res |-> "Received on"]

\* The line the callback logs: l.Printf("Received on [%s]: %s", m.Subject, string(m.Data)).
Received(m) ==
    [op |-> LoggerStream, subject |-> m.Subject, data |-> String(m.Data),
     res |-> "Received on"]

\* The delivery goroutine invokes the callback with the message it took.
CallbackInvoke ==
    /\ Running /\ popped # NoMsg
    /\ trace' = Append(trace, Received(popped))
    /\ handled' = Append(handled, popped)
    /\ popped' = NoMsg
    /\ UNCHANGED <<flagVars, pc, proc, exitCode, defers, connStatus, closeCount,
                   subState, pending, lost, published, sigVars>>

\* Background drain, first phase: once nothing is queued on the
\* subscription it is removed; the connection goes on to drain publishers.
DrainSubsDone ==
    /\ Running /\ connStatus = "DRAINING_SUBS" /\ pending = <<>>
    /\ subState' = "closed"
    /\ connStatus' = "DRAINING_PUBS"
    /\ UNCHANGED <<flagVars, pc, proc, exitCode, defers, trace, closeCount,
                   pending, popped, handled, lost, published, sigVars>>

\* Background drain, second phase: the connection is closed.
DrainPubsDone ==
    /\ Running /\ connStatus = "DRAINING_PUBS"
    /\ LibClose
    /\ UNCHANGED <<flagVars, pc, proc, exitCode, defers, trace, popped, handled,
                   published, sigVars>>

\* The TCP connection drops; the client starts reconnecting.
ConnLost ==
    /\ Running /\ connStatus = "CONNECTED"
    /\ connStatus' = "RECONNECTING"
    /\ UNCHANGED <<flagVars, pc, proc, exitCode, defers, trace, closeCount,
                   subVars, sigVars>>

Reconnected ==
    /\ Running /\ connStatus = "RECONNECTING"
    /\ connStatus' = "CONNECTED"
    /\ UNCHANGED <<flagVars, pc, proc, exitCode, defers, trace, closeCount,
                   subVars, sigVars>>

\* The client runs out of reconnect attempts and closes the connection.
ReconnectGaveUp ==
    /\ Running /\ connStatus = "RECONNECTING"
    /\ LibClose
    /\ UNCHANGED <<flagVars, pc, proc, exitCode, defers, trace, popped, handled,
                   published, sigVars>>

\* ------------------------------------------------------------ subscribe
\* nc.Subscribe(subject, callback); on error l.Fatalf, else the deferred
\* Unsubscribe is registered.
Subscribe ==
    /\ Running /\ pc = "subscribe"
    /\ \E err \in BOOLEAN :
         /\ connStatus = "CLOSED" => err
         /\ LET evs == <<Log("Subscribing to subject"),
                         Call("Subscribe", subject, NoBytes, err)>> IN
            IF err
            THEN Fatalf(evs, "Failed to subscribe")
            ELSE /\ trace' = trace \o evs
                 /\ subState' = "active"
                 /\ defers' = <<"sub.Unsubscribe">> \o defers
                 /\ pc' = "notify"
                 /\ UNCHANGED <<flagVars, proc, exitCode, connStatus, closeCount,
                                pending, popped, handled, lost, published, sigVars>>

\* sigCh := make(chan os.Signal, 1)
SigChCap == 1

\* signal.Notify(sigCh, syscall.SIGINT, syscall.SIGTERM)
Notify ==
    /\ Running /\ pc = "notify"
    /\ sigInstalled' = TRUE
    /\ pc' = "await"
    /\ UNCHANGED <<flagVars, proc, exitCode, defers, trace, connStatus, closeCount,
                   subVars, sigCh, signalled>>

\* Mutant of Await: the receive from sigCh does not block.
AwaitNoBlock ==
    /\ Running /\ pc = "await"
    /\ sigCh' = IF sigCh = <<>> THEN sigCh ELSE Tail(sigCh)
    /\ trace' = Append(trace, Log("Received signal"))
    /\ pc' = "drain"
    /\ UNCHANGED <<flagVars, proc, exitCode, defers, connStatus, closeCount,
                   subVars, sigInstalled, signalled>>

\* sig := <-sigCh, then the shutdown line is logged.
Await ==
    /\ Running /\ pc = "await" /\ sigCh # <<>>
    /\ sigCh' = Tail(sigCh)
    /\ trace' = Append(trace, Log("Received signal"))
    /\ pc' = "drain"
    /\ UNCHANGED <<flagVars, proc, exitCode, defers, connStatus, closeCount,
                   subVars, sigInstalled, signalled>>

\* nc.Drain() fails on a closed connection and on a reconnecting one (which
\* it closes); otherwise it starts the background drain and returns nil
\* at once.
DrainFails == connStatus \in {"CLOSED", "RECONNECTING"}

\* Mutant of Drain: a Drain error is fatal, like the other client errors.
DrainErrorFatal ==
    /\ Running /\ pc = "drain"
    /\ IF DrainFails
       THEN Fatalf(<<Call("Drain", <<>>, NoBytes, TRUE)>>, "Error during drain")
       ELSE /\ trace' = Append(trace, Call("Drain", <<>>, NoBytes, FALSE))
            /\ connStatus' = "DRAINING_SUBS"
            /\ subState' = IF subState = "active" THEN "draining" ELSE subState
            /\ pc' = "bye"
            /\ UNCHANGED <<flagVars, proc, exitCode, defers, closeCount, pending,
                           lost, popped, handled, published, sigVars>>

\* The call nc.Drain() and the test of its error.
Drain ==
    /\ Running /\ pc = "drain"
    /\ trace' = Append(trace, Call("Drain", <<>>, NoBytes, DrainFails))
    /\ CASE connStatus = "CONNECTED" ->
              /\ connStatus' = "DRAINING_SUBS"
              /\ subState' = IF subState = "active" THEN "draining" ELSE subState
              /\ UNCHANGED <<closeCount, pending, lost>>
         [] connStatus = "RECONNECTING" -> LibClose
         [] OTHER -> UNCHANGED <<connStatus, closeCount, subState, pending, lost>>
    /\ pc' = IF DrainFails THEN "drainerr" ELSE "bye"
    /\ UNCHANGED <<flagVars, proc, exitCode, defers, popped, handled, published,
                   sigVars>>

\* The tool only logs a Drain error.
DrainErrorLog ==
    /\ Running /\ pc = "drainerr"
    /\ trace' = Append(trace, Log("Error during drain"))
    /\ pc' = "bye"
    /\ UNCHANGED <<flagVars, proc, exitCode, defers, connStatus, closeCount,
                   subVars, sigVars>>

\* l.Println("Bye!"), then subscribe returns.
Bye ==
    /\ Running /\ pc = "bye"
    /\ trace' = Append(trace, Log("Bye!"))
    /\ pc' = "return"
    /\ UNCHANGED <<flagVars, proc, exitCode, defers, connStatus, closeCount,
                   subVars, sigVars>>

\* sub.Unsubscribe() fails on a closed connection, a closed subscription
\* and a draining connection.
UnsubscribeFails ==
    connStatus = "CLOSED" \/ subState = "closed" \/ connStatus \in Draining

\* The deferred function of subscribe, run when subscribe returns: the call
\* sub.Unsubscribe() and the test of its error.
DeferredUnsubscribe ==
    /\ Running /\ pc = "return" /\ defers # <<>> /\ Head(defers) = "sub.Unsubscribe"
    /\ trace' = Append(trace, Call("Unsubscribe", <<>>, NoBytes, UnsubscribeFails))
    /\ IF UnsubscribeFails
       THEN /\ pc' = "unsuberr"
            /\ UNCHANGED <<defers, subState, pending, lost>>
       ELSE /\ subState' = "closed"
            /\ lost' = lost + Len(pending)
            /\ pending' = <<>>
            /\ defers' = Tail(defers)
            /\ UNCHANGED pc
    /\ UNCHANGED <<flagVars, proc, exitCode, connStatus, closeCount, popped,
                   handled, published, sigVars>>

\* An Unsubscribe error is only logged; the deferred function returns.
UnsubscribeErrorLog ==
    /\ Running /\ pc = "unsuberr"
    /\ trace' = Append(trace, Log("Error during unsubscribe"))
    /\ defers' = Tail(defers)
    /\ pc' = "return"
    /\ UNCHANGED <<flagVars, proc, exitCode, connStatus, closeCount, subVars,
                   sigVars>>

\* defer nc.Close(), run when main returns; a no-op on a closed connection.
DeferredClose ==
    /\ Running /\ pc = "return" /\ defers # <<>> /\ Head(defers) = "nc.Close"
    /\ trace' = Append(trace, Call("Close", <<>>, NoBytes, FALSE))
    /\ IF connStatus # "CLOSED"
       THEN LibClose
       ELSE UNCHANGED <<connStatus, closeCount, subState, pending, lost>>
    /\ defers' = Tail(defers)
    /\ UNCHANGED <<flagVars, pc, proc, exitCode, popped, handled, published,
                   sigVars>>

\* main returns with every deferred call run: exit status 0.
MainReturn ==
    /\ Running /\ pc = "return" /\ defers = <<>>
    /\ ProcessEnds(0)
    /\ UNCHANGED <<flagVars, defers, trace, connStatus, closeCount, subState,
                   handled, published, sigVars>>

\* ------------------------------------------------------------ signals
\* SIGINT or SIGTERM is sent to the process.  Once signal.Notify has run
\* the signal is put on sigCh without blocking (dropped when the buffer is
\* full); before that the Go runtime's default action ends the process.
Signal ==
    /\ Running
    /\ signalled' = TRUE
    /\ \E sig \in Signals :
         IF sigInstalled
         THEN /\ sigCh' = IF Len(sigCh) < SigChCap THEN Append(sigCh, sig) ELSE sigCh
              /\ UNCHANGED <<proc, lost, pending, popped>>
         ELSE /\ proc' = "killed"
              /\ lost' = lost + InFlight
              /\ pending' = <<>>
              /\ popped' = NoMsg
              /\ UNCHANGED sigCh
    /\ UNCHANGED <<flagVars, pc, exitCode, defers, trace, connStatus, closeCount,
                   subState, handled, published, sigInstalled>>

\* ------------------------------------------------------------ specification
Main ==
    \/ FlagParse
    \/ Validate
    \/ ConnectLog
    \/ Connect
    \/ Publish
    \/ Flush
    \/ Subscribe
    \/ Notify
    \/ Await
    \/ Drain
    \/ DrainErrorLog
    \/ Bye
    \/ DeferredUnsubscribe
    \/ UnsubscribeErrorLog
    \/ DeferredClose
    \/ MainReturn

Client ==
    \/ CallbackDequeue
    \/ CallbackInvoke
    \/ DrainSubsDone
    \/ DrainPubsDone

Environment ==
    \/ PublisherRun
    \/ ConnLost
    \/ Reconnected
    \/ ReconnectGaveUp
    \/ Signal

Next == Main \/ Client \/ Environment

Spec == Init /\ [][Next]_vars

\* The Go scheduler runs every runnable goroutine: the main goroutine and
\* the client's goroutines take their next step when they can.  Nothing is
\* assumed of the server, the network or the sender of signals.
LiveSpec == Spec /\ WF_vars(Main) /\ WF_vars(Client)

\* ------------------------------------------------------------ claims
Exited == proc = "exited"

\* flag.Parse accepts the command line: the four flags hold its values.
Parsed == argv = "ok"

\* The flags the specification calls invalid.
FlagsInvalid ==
    \/ mode = ""
    \/ subject = <<>>
    \/ mode \notin {"pub", "sub"}
    \/ (mode = "pub" /\ msg = <<>>)

\* Validation has rejected the invocation: usage printed, exit status 1,
\* no client call made.
Rejected ==
    /\ PosOut("usage") # {}
    /\ Exited /\ exitCode = 1
    /\ Calls = <<>>

\* C1 as stated: an invocation whose flags are invalid makes no call of
\* the client (no Connect, Publish or Subscribe) and the only exit it takes
\* is exit status 1, taken by the validation.
C1_InvalidFlagsExitOneNoConnect ==
    FlagsInvalid =>
        /\ Calls = <<>>
        /\ pc \in {"parse", "validate", "exit"}
        /\ pc = "exit" => Rejected

\* C1, amended: an invocation whose flags are invalid never calls the
\* client; when flag.Parse accepts its command line the only exit it takes
\* is exit status 1, taken by the validation; when flag.Parse does not,
\* it exits inside flag.Parse, with status 0 for -h and 2 otherwise.
C1_ParsedInvalidFlagsExitOne ==
    FlagsInvalid =>
        /\ Calls = <<>>
        /\ pc \in {"parse", "validate", "exit"}
        /\ (pc = "exit" /\ Parsed) => Rejected
        /\ (pc = "exit" /\ ~Parsed) =>
             /\ Exited /\ exitCode = (IF argv = "help" THEN 0 ELSE 2)
             /\ PosOut("usage") = {Len(trace)}

C1_Witness ==
    /\ Parsed /\ mode = "pub" /\ subject # <<>> /\ msg = <<>>
    /\ Exited /\ exitCode = 1

\* C2: validation rejects exactly the invalid flag combinations; every
\* other combination, whatever the url and whatever msg is in sub mode,
\* passes and goes on to nats.Connect.  Validation decides on the flags
\* flag.Parse has parsed.
C2_RejectsIffInvalid ==
    /\ Rejected => Parsed
    /\ (Parsed /\ pc \notin {"parse", "validate"}) =>
        /\ FlagsInvalid <=> Rejected
        /\ ~FlagsInvalid => (pc \in {"connect", "dial"} \/ PosOf("Connect") # {})
        /\ ~FlagsInvalid => PosOut("usage") = {}

C2_Witness ==
    /\ Parsed /\ mode = "sub" /\ msg = <<>> /\ natsURL # DefaultURL
    /\ PosOf("Connect") # {}

ValidPub == Parsed /\ mode = "pub" /\ subject # <<>> /\ msg # <<>>

PublishArgsRight ==
    \A i \in PosOf("Publish") : trace[i].subject = subject /\ trace[i].data = msg

\* C3 as stated: every valid pub invocation that exits has called
\* nc.Publish exactly once, with the subject and the bytes of msg.
C3_PublishExactlyOnce ==
    (ValidPub /\ Exited) =>
        /\ Cardinality(PosOf("Publish")) = 1
        /\ PublishArgsRight

\* C3, amended: a valid pub invocation passes validation and calls
\* nc.Publish at most once, always with the subject and the bytes of msg;
\* it has called it exactly once whenever it exits after nats.Connect
\* succeeded, and never when nats.Connect failed.
C3_PublishOnceWhenConnected ==
    ValidPub =>
        /\ PosOut("usage") = {}
        /\ Cardinality(PosOf("Publish")) <= 1
        /\ PublishArgsRight
        /\ (Exited /\ PosOfRes("Connect", "ok") # {}) => Cardinality(PosOf("Publish")) = 1
        /\ PosOfRes("Connect", "err") # {} => PosOf("Publish") = {}

C3_Witness ==
    /\ ValidPub /\ Exited /\ Len(msg) = 2
    /\ PosOfRes("Connect", "ok") # {}
    /\ PosOfRes("Publish", "err") # {}

\* C4 as stated: once nats.Connect has succeeded, every exit of the
\* process has executed nc.Close.
C4_ClosedOnEveryExit ==
    (Exited /\ PosOfRes("Connect", "ok") # {}) => PosOf("Close") # {}

\* C5: in pub mode (command line parsed, -mode pub) the success line and exit status 0 only follow a
\* Publish and then a Flush that both returned nil; a run that exits with
\* status 0 did Publish, Flush, success line, Close in that order.
C5_NoSuccessWithoutFlush ==
    (Parsed /\ mode = "pub") =>
        /\ \A s \in PosOut("Message published") :
             \E p \in PosOfRes("Publish", "ok"), f \in PosOfRes("Flush", "ok") :
                 p < f /\ f < s
        /\ (Exited /\ exitCode = 0) =>
             \E p \in PosOfRes("Publish", "ok"), f \in PosOfRes("Flush", "ok"),
                s \in PosOut("Message published"), c \in PosOf("Close") :
                 /\ p < f /\ f < s /\ s < c
                 /\ c = Len(trace)
                 /\ PosOf("Flush") = {f} /\ PosOf("Publish") = {p}

C5_Witness ==
    /\ Parsed /\ mode = "pub" /\ Exited /\ exitCode = 0
    /\ PosOfRes("Flush", "ok") # {}

\* C6 as stated: after a Drain that returned nil, the Unsubscribe and the
\* Close that follow discard no message that was queued or being
\* delivered: every such message gets its callback before the process ends.
C6_NoInFlightMessageDropped ==
    PosOfRes("Drain", "ok") # {} => lost = 0

\* A signal has been sent to a subscriber in the Subscribed state
\* (subscription registered, no shutdown started): it is either waiting on
\* sigCh or, with no handler installed yet, it has ended the process.
SignalSentWhileSubscribed ==
    /\ subState = "active"
    /\ (sigCh # <<>> \/ proc = "killed")

Closed == connStatus = "CLOSED"

\* C7 as stated: a SIGINT or SIGTERM sent in the Subscribed state leads to
\* Closed, and once the shutdown has closed the connection the callback is
\* not invoked again.
C7_SignalLeadsToClosed ==
    /\ [](SignalSentWhileSubscribed => <>Closed)
    /\ [][(Closed /\ PosOf("Close") # {}) => handled' = handled]_vars

\* The lifecycle state of the specification, as a number: Idle, Connected,
\* Subscribed, Draining, Closed.
LifecycleRank ==
    IF connStatus = "CLOSED" THEN 4
    ELSE IF connStatus \in Draining THEN 3
    ELSE IF subState = "active" THEN 2
    ELSE IF connStatus = "NONE" THEN 0
    ELSE 1

\* C8 as stated: in sub mode the lifecycle never moves backwards and every
\* run that connected has reached Closed exactly once when it exits.
C8_ClosedExactlyOnce ==
    /\ [][mode = "sub" => LifecycleRank' >= LifecycleRank]_vars
    /\ [](mode = "sub" =>
            /\ closeCount <= 1
            /\ (Exited /\ PosOfRes("Connect", "ok") # {}) => closeCount = 1)

\* C9: an error returned by nc.Drain or by sub.Unsubscribe is logged and
\* nothing else: main goes on to log it (the callback may log in between),
\* the shutdown goes on through Unsubscribe and Close and the process
\* exits with status 0.
C9_DrainErrorOnlyLogged ==
    /\ \A d \in PosOfRes("Drain", "err") :
         /\ pc = "drainerr" \/ \E e \in PosOut("Error during drain") : d < e
         /\ Exited => /\ exitCode = 0
                      /\ \E u \in PosOf("Unsubscribe"), c \in PosOf("Close") : d < u /\ u < c
         /\ ~Exited => /\ Running /\ ENABLED Main
                       /\ pc \in {"drainerr", "bye", "return", "unsuberr"}
    /\ PosOut("Error during drain") # {} => PosOfRes("Drain", "err") # {}
    /\ \A u \in PosOfRes("Unsubscribe", "err") :
         /\ pc = "unsuberr" \/ \E e \in PosOut("Error during unsubscribe") : u < e
         /\ Exited => /\ exitCode = 0
                      /\ \E c \in PosOf("Close") : u < c
         /\ ~Exited => /\ Running /\ ENABLED Main
                       /\ pc \in {"unsuberr", "return"}
    /\ PosOut("Error during unsubscribe") # {} => PosOfRes("Unsubscribe", "err") # {}

\* Both errors in one run, with a callback line between the failed Drain
\* and the line that logs its error.
C9_Witness ==
    /\ Exited /\ exitCode = 0
    /\ \E d \in PosOfRes("Drain", "err") : trace[d + 1].res = "Received on"
    /\ PosOfRes("Unsubscribe", "err") # {}
    /\ PosOf("Close") # {}

FatalCallFailed ==
    \E op \in {"Connect", "Publish", "Flush", "Subscribe"} : PosOfRes(op, "err") # {}

\* C10 as stated: a process that exits by itself exits with status 1
\* exactly when validation, Connect, Publish, Flush or Subscribe failed,
\* and with status 0 otherwise, drain and unsubscribe errors included.
C10_ExitCodes ==
    Exited =>
        /\ exitCode \in {0, 1}
        /\ exitCode = 1 <=> ((Parsed /\ FlagsInvalid) \/ FatalCallFailed)

\* C10, amended: a process that exits by itself exits with status 2
\* exactly when flag.Parse cannot parse the command line, with status 1
\* exactly when validation, Connect, Publish, Flush or Subscribe failed,
\* and with status 0 otherwise: -h, a successful publish, a subscriber
\* shutdown after a handled signal, drain and unsubscribe errors included.
C10_ExitCodesWithParse ==
    Exited =>
        /\ exitCode \in {0, 1, 2}
        /\ exitCode = 2 <=> argv \notin {"ok", "help"}
        /\ exitCode = 1 <=> ((Parsed /\ FlagsInvalid) \/ FatalCallFailed)
        /\ FatalCallFailed => Parsed /\ ~FlagsInvalid

C10_Witness ==
    /\ Exited /\ exitCode = 0 /\ mode = "sub"
    /\ PosOfRes("Drain", "ok") # {}
    /\ PosOfRes("Unsubscribe", "err") # {}

\* The format strings of the four l.Fatalf calls, by the call that failed.
FatalText(op) ==
    CASE op = "Connect" -> "Failed to connect to NATS"
      [] op = "Publish" -> "Failed to publish"
      [] op = "Flush" -> "Failed to flush"
      [] op = "Subscribe" -> "Failed to subscribe"
      [] OTHER -> "none"

\* C11 as stated: every exit with status 1 has printed its diagnostic to
\* standard error.
C11_DiagnosticOnStderr ==
    (Exited /\ exitCode = 1) =>
        \E i \in 1..Len(trace) : trace[i].op = "stderr" /\ trace[i].res # "usage"

\* C11, amended: every exit with status 1 has printed its diagnostic last:
\* a validation failure prints its error and the usage to standard error;
\* a Connect, Publish, Flush or Subscribe failure prints its line through
\* the logger, which writes to standard output, and nothing to standard
\* error.
C11_DiagnosticPrinted ==
    (Exited /\ exitCode = 1) =>
        /\ Len(trace) >= 2
        /\ LET last == trace[Len(trace)]
               prev == trace[Len(trace) - 1] IN
           IF FlagsInvalid
           THEN /\ last = Out("stderr", "usage")
                /\ prev.op = "stderr" /\ prev.res # "usage"
                /\ Len(trace) = 2
           ELSE /\ prev.op \in {"Connect", "Publish", "Flush", "Subscribe"}
                /\ prev.res = "err"
                /\ last = Out("stdout", FatalText(prev.op))
                /\ \A i \in 1..Len(trace) : trace[i].op # "stderr"

C11_Witness ==
    /\ Exited /\ exitCode = 1
    /\ PosOfRes("Subscribe", "err") # {}
    /\ trace[Len(trace)].op = "stdout"

\* The lines the callback has logged, in order.
ReceivedLines == SelectSeq(trace, LAMBDA e : e.res = "Received on")

\* The publisher runs whose message the server sent to the subscription.
RoutedRuns == SelectSeq(published, LAMBDA r : r.routed)

\* What a subscription on pattern p is to receive, pattern by pattern:
\* "*" stands for exactly one token, ">" for one or more trailing tokens.
Expected(p, s) ==
    CASE p = <<"a", ".", ">">> -> s \in {<<"a", ".", "b">>, <<"a", ".", "b", ".", "c">>}
      [] p = <<"a", ".", "*">> -> s = <<"a", ".", "b">>
      [] p = <<"a", ".", "b">> -> s = <<"a", ".", "b">>
      [] OTHER -> FALSE

\* Every callback line is the line of one publisher run, in the order of
\* the runs, no run twice: it shows the subject and the -msg of that run.
CallbackPerRun ==
    LET lines == ReceivedLines
        runs == RoutedRuns IN
    /\ Len(lines) = Len(handled)
    /\ Len(handled) <= Len(runs)
    /\ \A i \in 1..Len(lines) :
         /\ lines[i].subject = runs[i].Subject
         /\ lines[i].data = runs[i].Msg
         /\ handled[i] = Wire(runs[i].Subject, runs[i].Msg)

\* The subjects the pattern of this subscriber matches are those it is to
\* receive, and every publisher run on record is on one of them.
MatchedAsExpected ==
    /\ \A s \in PublishedSubjects : SubjectMatches(subject, s) <=> Expected(subject, s)
    /\ \A i \in 1..Len(published) : Expected(subject, published[i].Subject)

C13_OneBranchOnly ==
    /\ mode = "pub" =>
         /\ PosOf("Subscribe") = {} /\ PosOf("Drain") = {} /\ PosOf("Unsubscribe") = {}
         /\ ~sigInstalled /\ subState = "none"
    /\ mode = "sub" => PosOf("Publish") = {} /\ PosOf("Flush") = {}
    /\ ~(PosOf("Publish") # {} /\ PosOf("Subscribe") # {})
    /\ PosOfRes("Connect", "ok") # {} =>
         \/ pc = "publish" \/ PosOf("Publish") # {}
         \/ pc = "subscribe" \/ PosOf("Subscribe") # {}

C13_Witness ==
    /\ mode = "sub" /\ Exited /\ sigInstalled
    /\ PosOf("Drain") # {} /\ PosOf("Publish") = {}

FatalOps == {"Connect", "Publish", "Flush", "Subscribe"}

\* C14: nothing is retried: Connect, Publish, Flush, Subscribe and Drain
\* are each called at most once, and an error from Connect, Publish, Flush
\* or Subscribe ends the process at once (status 1) with no client call
\* after the one that failed.
C14_NoRetry ==
    /\ \A op \in FatalOps \cup {"Drain"} : Cardinality(PosOf(op)) <= 1
    /\ \A op \in FatalOps : \A i \in PosOfRes(op, "err") :
         /\ Exited /\ exitCode = 1
         /\ i = Len(trace) - 1
         /\ ~IsCall(trace[Len(trace)])

C14_Witness ==
    /\ Exited /\ exitCode = 1
    /\ PosOfRes("Publish", "ok") # {}
    /\ PosOfRes("Flush", "err") # {}

ShutdownCalls == PosOf("Drain") \cup PosOf("Unsubscribe") \cup PosOf("Close")

\* C15: in sub mode, once the subscription is registered, the main
\* goroutine makes no move towards shutdown before a signal: with no
\* signal sent it is still running, at signal.Notify or blocked on sigCh,
\* with no Drain, Unsubscribe or Close called, however many messages have
\* been handled; every such call comes after the "Received signal" line;
\* while main is blocked the delivery goroutine can still run the callback.
C15_BlockedUntilSignal ==
    (mode = "sub" /\ PosOfRes("Subscribe", "ok") # {}) =>
        /\ ~signalled =>
             /\ Running /\ pc \in {"notify", "await"}
             /\ ShutdownCalls = {}
        /\ \A d \in ShutdownCalls : \E s \in PosOut("Received signal") : s < d
        /\ (Running /\ pc = "await" /\ sigCh = <<>>) => ~ENABLED Main
        /\ (Running /\ pc = "await" /\ popped # NoMsg) => ENABLED CallbackInvoke

C15_Witness ==
    /\ mode = "sub" /\ Running /\ pc = "await" /\ ~signalled
    /\ Len(handled) = MaxMsgs

\* C16 as stated: a shutdown started by a handled signal calls nc.Drain,
\* sub.Unsubscribe and nc.Close in that order, each exactly once, and
\* sub.Unsubscribe returns nil.
C16_OrderedReleaseUnsubscribeSucceeds ==
    (Exited /\ PosOut("Received signal") # {}) =>
        \E d \in PosOf("Drain"), u \in PosOf("Unsubscribe"), c \in PosOf("Close") :
            /\ d < u /\ u < c
            /\ PosOf("Drain") = {d} /\ PosOf("Unsubscribe") = {u} /\ PosOf("Close") = {c}
            /\ trace[u].res = "ok"

\* C17 as stated: once nc.Subscribe has returned nil, a SIGINT or SIGTERM
\* never ends the process abruptly: a process that has stopped after such
\* a signal has logged it and has called Drain, Unsubscribe and Close.
C17_SignalAfterSubscribeIsGraceful ==
    (PosOfRes("Subscribe", "ok") # {} /\ signalled /\ ~Running) =>
        /\ Exited
        /\ PosOut("Received signal") # {}
        /\ PosOf("Drain") # {} /\ PosOf("Unsubscribe") # {} /\ PosOf("Close") # {}
====
